---- MODULE Spec2Model ----
(***************************************************************************)
(* Queue interception and multi-client callback dispatch of                *)
(* rocprofiler-sdk: rocprofiler::hsa::QueueController                      *)
(* (source/lib/rocprofiler/hsa/queue_controller.cpp) as a state machine.   *)
(* Application and control threads call the runtime's queue-create and     *)
(* queue-destroy entry points and the controller's add_callback and        *)
(* remove_callback; each call is a sequence of steps separated at the      *)
(* points where the code takes one of the two writer locks or touches the  *)
(* atomic identifier counter.                                              *)
(***************************************************************************)
EXTENDS Integers, Sequences, FiniteSets, TLC

(***************************************************************************)
(* Bounds of the model.                                                    *)
(***************************************************************************)
NumThreads == 2
NumHandles == 2
MaxCallbacks == 2

Threads == 1..NumThreads
Handles == 1..NumHandles
ClientIDs == 1..MaxCallbacks
NoThread == 0

(***************************************************************************)
(* Program constants (source/include/rocprofiler/fwd.h).                   *)
(***************************************************************************)
ROCPROFILER_AGENT_TYPE_CPU == 1
ROCPROFILER_AGENT_TYPE_GPU == 2
ROCPROFILER_SERVICE_BUFFER_TRACING_HSA_API == 1
ROCPROFILER_SERVICE_BUFFER_TRACING_MEMORY_COPY == 4
ROCPROFILER_SERVICE_BUFFER_TRACING_KERNEL_DISPATCH == 5
InitialClientID == 1

(***************************************************************************)
(* The agents the enumeration reports, by ordinal: one host agent and two  *)
(* accelerators.  AgentHandle is the opaque handle of the agent at an      *)
(* ordinal; handles differ from ordinals.                                  *)
(***************************************************************************)
AgentTypes ==
    <<ROCPROFILER_AGENT_TYPE_CPU, ROCPROFILER_AGENT_TYPE_GPU, ROCPROFILER_AGENT_TYPE_GPU>>
Ordinals == 0..(Len(AgentTypes) - 1)
AgentType(i) == AgentTypes[i + 1]
AgentHandle(i) == 100 + i
AgentHandles == {AgentHandle(i) : i \in Ordinals}

(***************************************************************************)
(* The callbacks are opaque to the controller.  The n-th call of           *)
(* add_callback passes its own pair, different from every other call's.    *)
(***************************************************************************)
CallbackPair(n) == <<"qcb" \o ToString(n), "ccb" \o ToString(n)>>

(***************************************************************************)
(* Registered contexts.  A context has counter_collection (set or not),    *)
(* buffered_tracer (set or not) and, when it has one, the tracer's         *)
(* domains.                                                                *)
(***************************************************************************)
TracingDomains ==
    {ROCPROFILER_SERVICE_BUFFER_TRACING_HSA_API,
     ROCPROFILER_SERVICE_BUFFER_TRACING_MEMORY_COPY,
     ROCPROFILER_SERVICE_BUFFER_TRACING_KERNEL_DISPATCH}
Context(cc, bt, doms) ==
    [counter_collection |-> cc, buffered_tracer |-> bt, domains |-> doms]

VARIABLES
    contexts,          \* context::get_registered_contexts()
    core_table,        \* the runtime's CoreApiTable: queue create/destroy slots
    saved_core_table,  \* QueueController::_core_table
    supported_agents,  \* QueueController::_supported_agents, ordinal -> AgentCache
    inited,            \* QueueController::init has run
    queues,            \* QueueController::_queues, handle -> Queue
    callback_cache,    \* QueueController::_callback_cache, ClientID -> tuple
    client_id,         \* static std::atomic<ClientID> client_id
    cb_lock,           \* writer of _callback_cache's lock, or NoThread
    q_lock,            \* writer of _queues' lock, or NoThread
    allocated,         \* native queue handles the runtime has handed out
    fatal,             \* LOG(FATAL) was reached: the process is gone
    pc,                \* position of each thread
    frame,             \* arguments and locals of each thread's call
    ac_calls,          \* history: add_callback calls started
    ac_done,           \* history: add_callback calls returned
    ret_log,           \* history: what each add_callback call returned
    removed,           \* history: remove_callback calls that returned
    construction_failed, \* history: ordinals whose AgentCache constructor threw
    fired,             \* history: the identifiers of the last dispatch, as fired
    header,            \* a rocprofiler_record_header_t: category, kind, hash
    kernel_object      \* a KernelObject under construction

vars ==
    <<contexts, core_table, saved_core_table, supported_agents, inited, queues,
      callback_cache, client_id, cb_lock, q_lock, allocated, fatal, pc, frame,
      ac_calls, ac_done, ret_log, removed, construction_failed, fired, header,
      kernel_object>>

(***************************************************************************)
(* Maps (std::unordered_map): functions on a finite set of keys.           *)
(***************************************************************************)
EmptyMap == [k \in {} |-> 0]
MapPut(m, k, v) == [x \in DOMAIN m \cup {k} |-> IF x = k THEN v ELSE m[x]]
MapEmplace(m, k, v) == IF k \in DOMAIN m THEN m ELSE MapPut(m, k, v)
MapErase(m, k) == [x \in DOMAIN m \ {k} |-> m[x]]

(***************************************************************************)
(* common::Synchronized<T>::wlock: the lock is free when it has no writer. *)
(* The controller takes no reader locks.                                   *)
(***************************************************************************)
WLockFree(lock) == lock = NoThread

(***************************************************************************)
(* Queue: the proxy of one native queue.  Its agent, its private map from  *)
(* ClientID to (pre-dispatch callback, completion callback), and the order *)
(* in which the identifiers were registered with it, which is the order    *)
(* in which their pairs fire.                                              *)
(***************************************************************************)
NewQueue(agent) == [agent |-> agent, callbacks |-> EmptyMap, order |-> << >>]

\* Queue::register_callback(id, qcb, ccb): idempotent insert.
RegisterCallback(q, id, qcb, ccb) ==
    IF id \in DOMAIN q.callbacks
    THEN q
    ELSE [q EXCEPT !.callbacks = MapEmplace(@, id, <<qcb, ccb>>),
                   !.order = Append(@, id)]

\* Queue::remove_callback(id): idempotent erase.
RemoveCallback(q, id) ==
    [q EXCEPT !.callbacks = MapErase(@, id),
              !.order = SelectSeq(@, LAMBDA x : x # id)]

\* The orders in which a loop over a std::unordered_map with the keys S
\* can visit them: the container fixes none.
IterationOrders(S) ==
    {f \in [1..Cardinality(S) -> S] :
        \A i, j \in 1..Cardinality(S) : f[i] = f[j] => i = j}

(***************************************************************************)
(* QueueController::init, first part: the enumeration callback.  For each  *)
(* ordinal i in order, a non-GPU agent is skipped; for a GPU agent the     *)
(* AgentCache is constructed and emplaced under key i, unless the          *)
(* constructor throws (i \in fails), which is logged and absorbed.         *)
(***************************************************************************)
AgentCache(i) == [agent |-> AgentHandle(i), index |-> i]

\* An enumeration that a throwing constructor ends: the agents after the
\* failing one get no entry.
RECURSIVE GenerateUntilFailure(_, _, _)
GenerateUntilFailure(map, i, fails) ==
    IF i >= Len(AgentTypes) THEN map
    ELSE IF AgentType(i) # ROCPROFILER_AGENT_TYPE_GPU
         THEN GenerateUntilFailure(map, i + 1, fails)
         ELSE IF i \in fails
              THEN map
              ELSE GenerateUntilFailure(MapEmplace(map, i, AgentCache(i)), i + 1, fails)

RECURSIVE GenerateSupportedAgents(_, _, _)
GenerateSupportedAgents(map, i, fails) ==
    IF i >= Len(AgentTypes) THEN map
    ELSE IF AgentType(i) # ROCPROFILER_AGENT_TYPE_GPU
         THEN GenerateSupportedAgents(map, i + 1, fails)
         ELSE IF i \in fails
              THEN GenerateSupportedAgents(map, i + 1, fails)
              ELSE GenerateSupportedAgents(MapEmplace(map, i, AgentCache(i)), i + 1, fails)

(***************************************************************************)
(* QueueController::init, second part: the scan of the registered          *)
(* contexts, from position i, with its two break statements.               *)
(***************************************************************************)
TracerDomains(ctx, domain) == domain \in ctx.domains

\* A scan in which any buffered tracer, whatever its domains, enables
\* interception.
RECURSIVE EnableOnAnyTracer(_, _)
EnableOnAnyTracer(ctxs, i) ==
    IF i > Len(ctxs) THEN FALSE
    ELSE IF ctxs[i].counter_collection THEN TRUE
    ELSE IF ctxs[i].buffered_tracer THEN TRUE
    ELSE EnableOnAnyTracer(ctxs, i + 1)

\* A scan that leaves the loop after the context at position i, whether
\* or not that context enabled interception.
EnableByFirstContext(ctxs, i) ==
    IF i > Len(ctxs) THEN FALSE
    ELSE IF ctxs[i].counter_collection THEN TRUE
    ELSE IF ctxs[i].buffered_tracer
         THEN \/ TracerDomains(ctxs[i],
                               ROCPROFILER_SERVICE_BUFFER_TRACING_KERNEL_DISPATCH)
              \/ TracerDomains(ctxs[i],
                               ROCPROFILER_SERVICE_BUFFER_TRACING_MEMORY_COPY)
         ELSE FALSE

RECURSIVE EnableIntercepter(_, _)
EnableIntercepter(ctxs, i) ==
    IF i > Len(ctxs) THEN FALSE
    ELSE IF ctxs[i].counter_collection THEN TRUE
    ELSE IF ctxs[i].buffered_tracer
         THEN IF \/ TracerDomains(ctxs[i],
                                  ROCPROFILER_SERVICE_BUFFER_TRACING_KERNEL_DISPATCH)
                 \/ TracerDomains(ctxs[i],
                                  ROCPROFILER_SERVICE_BUFFER_TRACING_MEMORY_COPY)
              THEN TRUE
              ELSE EnableIntercepter(ctxs, i + 1)
         ELSE EnableIntercepter(ctxs, i + 1)

\* The last statement of init: both slots are overwritten when enabled.
InstallHooks(table, enable) ==
    IF enable
    THEN [table EXCEPT !.hsa_queue_create_fn = "create_queue",
                       !.hsa_queue_destroy_fn = "destroy_queue"]
    ELSE table

NativeTable ==
    [hsa_queue_create_fn |-> "native_create", hsa_queue_destroy_fn |-> "native_destroy"]

(***************************************************************************)
(* The bodies of the controller's critical sections, as functions of the   *)
(* maps they are given.                                                    *)
(***************************************************************************)

\* add_queue, line 80: map[id] = std::move(queue).
\* An insertion that leaves the new entry alone in the table.
InsertQueueAlone(map, id, queue) == MapPut(EmptyMap, id, queue)

InsertQueue(map, id, queue) == MapPut(map, id, queue)

\* A backfill that registers nothing on the new queue.
BackfillNothing(callbacks, ids, q, agent_id) == q

\* add_queue, lines 81-88: every cached callback whose agent is the queue's
\* agent is registered on the queue.  ids is what is left to iterate, in
\* the order of the iteration.
RECURSIVE BackfillCallbacks(_, _, _, _)
BackfillCallbacks(callbacks, ids, q, agent_id) ==
    IF ids = << >> THEN q
    ELSE LET cbid == Head(ids)
             cb_tuple == callbacks[cbid]
         IN  BackfillCallbacks(
                 callbacks, Tail(ids),
                 IF cb_tuple[1] = agent_id
                 THEN RegisterCallback(q, cbid, cb_tuple[2], cb_tuple[3])
                 ELSE q,
                 agent_id)

\* A release through operator[] (map[id].reset()), which leaves an entry
\* without a queue behind for a handle that was not in the map.
EraseQueueThroughIndex(map, id) ==
    IF id \in DOMAIN map THEN MapErase(map, id) ELSE MapPut(map, id, NewQueue(0))

\* An erase that empties the table when the handle is live.
EraseEveryQueue(map, id) == IF id \in DOMAIN map THEN EmptyMap ELSE map

\* destory_queue, line 96: map.erase(id).
EraseQueue(map, id) == MapErase(map, id)

\* A store under the key after the one that is returned (the increment
\* taken before the store).
StoreCallbackAtNextKey(cb_cache, id, agent, qcb, ccb) ==
    MapPut(cb_cache, id + 1, <<agent, qcb, ccb>>)

\* add_callback, line 108: cb_cache[client_id] = tuple(agent, qcb, ccb).
StoreCallback(cb_cache, id, agent, qcb, ccb) == MapPut(cb_cache, id, <<agent, qcb, ccb>>)

\* A counter that is not advanced.
SameClientID(id) == id

\* add_callback, line 109: client_id++.
NextClientID(id) == id + 1

\* A scan without the agent comparison of line 113.
ScanRegisterEveryQueue(map, agent, return_id, qcb, ccb) ==
    [h \in DOMAIN map |-> RegisterCallback(map[h], return_id, qcb, ccb)]

\* add_callback, lines 111-117: the scan of the live queues.
ScanRegister(map, agent, return_id, qcb, ccb) ==
    [h \in DOMAIN map |->
        IF map[h].agent = agent
        THEN RegisterCallback(map[h], return_id, qcb, ccb)
        ELSE map[h]]

\* An erase that leaves the registry entry in place.
EraseCallbackNothing(cb_cache, id) == cb_cache

\* An erase that removes the lowest identifier when the given one is not
\* in the registry.
EraseCallbackOrLowest(cb_cache, id) ==
    IF id \in DOMAIN cb_cache \/ cb_cache = EmptyMap
    THEN MapErase(cb_cache, id)
    ELSE MapErase(cb_cache, CHOOSE x \in DOMAIN cb_cache :
                                \A y \in DOMAIN cb_cache : x <= y)

\* remove_callback, line 127: cb_cache.erase(id).
EraseCallback(cb_cache, id) == MapErase(cb_cache, id)

\* A removal scan that leaves the queues as they are.
ScanRemoveNothing(map, id) == map

\* A scan that empties the snapshot of every queue that holds the
\* identifier.
ScanRemoveClearing(map, id) ==
    [h \in DOMAIN map |->
        IF id \in DOMAIN map[h].callbacks
        THEN [map[h] EXCEPT !.callbacks = EmptyMap, !.order = << >>]
        ELSE map[h]]

\* remove_callback, lines 129-132: the scan of the live queues.
ScanRemove(map, id) == [h \in DOMAIN map |-> RemoveCallback(map[h], id)]

\* A lookup that takes any supported agent, whatever its handle.
FindAnyAgent(agents, handle) == DOMAIN agents

\* create_queue, lines 43-45: the supported agent with the given handle.
FindAgent(agents, handle) == {i \in DOMAIN agents : agents[i].agent = handle}

(***************************************************************************)
(* Threads.                                                                *)
(***************************************************************************)
NoFrame ==
    [agent |-> 0, h |-> 0, id |-> 0, qcb |-> "", ccb |-> "", return_id |-> 0,
     call |-> 0, quiet |-> FALSE, before |-> 0, issued |-> FALSE]

Running == ~fatal

(***************************************************************************)
(* Unsigned integers of a fixed width are vectors of bits, bit 0 the least *)
(* significant.  U32(S) is the 32-bit value whose set bits are S.          *)
(***************************************************************************)
U32(S) == [i \in 0..31 |-> IF i \in S THEN 1 ELSE 0]

\* (uint64_t)(x): zero extension of a narrower unsigned value.
ToUInt64(x) == [i \in 0..63 |-> IF i \in DOMAIN x THEN x[i] ELSE 0]

\* x << n on a uint64_t: the bits shifted past bit 63 are dropped.
ShiftLeft64(x, n) == [i \in 0..63 |-> IF i >= n THEN x[i - n] ELSE 0]

\* x | y on two uint64_t.
BitOr64(x, y) == [i \in 0..63 |-> IF x[i] = 1 \/ y[i] = 1 THEN 1 ELSE 0]

MaxOf(S) == IF S = {} THEN 0 ELSE CHOOSE x \in S : \A y \in S : y <= x

(***************************************************************************)
(* Natural numbers of any size, for stating what the unsigned values are:  *)
(* a numeral is the sequence of the number's digits in base 256, least     *)
(* significant first.  Numeral(x) is the number a vector of bits stands    *)
(* for, eight bits to the digit.                                           *)
(***************************************************************************)
Octet(x, b) ==
    x[b] + 2 * x[b + 1] + 4 * x[b + 2] + 8 * x[b + 3] + 16 * x[b + 4]
        + 32 * x[b + 5] + 64 * x[b + 6] + 128 * x[b + 7]

Numeral(x) == [i \in 1..(Cardinality(DOMAIN x) \div 8) |-> Octet(x, 8 * (i - 1))]

Digit(n, i) == IF i <= Len(n) THEN n[i] ELSE 0

\* The numeral without its leading zeros.
Normal(n) == SubSeq(n, 1, MaxOf({i \in 1..Len(n) : n[i] # 0}))

\* n * 2^k and n + m, n mod 2^k and n div 2^k, on numerals (k a multiple
\* of 8).
TimesPow2(n, k) == [i \in 1..(k \div 8) |-> 0] \o n

RECURSIVE PlusFrom(_, _, _, _)
PlusFrom(n, m, i, carry) ==
    IF i > Len(n) /\ i > Len(m)
    THEN IF carry = 1 THEN <<1>> ELSE << >>
    ELSE LET sum == Digit(n, i) + Digit(m, i) + carry
         IN  <<sum % 256>> \o PlusFrom(n, m, i + 1, sum \div 256)

Plus(n, m) == PlusFrom(n, m, 1, 0)

ModPow2(n, k) == SubSeq(n, 1, IF Len(n) < k \div 8 THEN Len(n) ELSE k \div 8)

DivPow2(n, k) == SubSeq(n, (k \div 8) + 1, Len(n))

SameNumber(n, m) == Normal(n) = Normal(m)

\* n is representable in w bits (w a multiple of 8).
FitsIn(n, w) == Len(Normal(n)) <= w \div 8

(***************************************************************************)
(* uint64_t arithmetic of KernelObject's constructor.  A uint64_t is the   *)
(* sequence of its eight octets, least significant first: the numeral of   *)
(* its value, of a fixed length.  UInt64(low, high) is the value whose     *)
(* lowest octet is low and whose other seven octets are all high.          *)
(***************************************************************************)
UInt64(low, high) == <<low>> \o [i \in 1..7 |-> high]

\* x + y on uint64_t: the carry out of the highest octet is dropped.
Add64(x, y) == SubSeq(Plus(x, y), 1, 8)

\* x < y on uint64_t.
Less64(x, y) ==
    \E i \in 1..8 : x[i] < y[i] /\ \A j \in (i + 1)..8 : x[j] = y[j]

\* As rocprofiler_record_header_compute_hash, shifting kind by 31 bits.
ComputeHashShiftingBy31(category, kind) ==
    LET value == ToUInt64(category)
    IN  BitOr64(value, ShiftLeft64(ToUInt64(kind), 31))

\* uint64_t value = category; value |= ((uint64_t)(kind)) << 32; return value;
rocprofiler_record_header_compute_hash(category, kind) ==
    LET value == ToUInt64(category)
    IN  BitOr64(value, ShiftLeft64(ToUInt64(kind), 32))

\* No KernelObject is being constructed.
NoKernelObject ==
    [begin_address |-> UInt64(0, 0), end_address |-> UInt64(0, 0),
     vaddr |-> UInt64(0, 0), instructions |-> << >>, pc |-> "none"]

\* A header before its hash has been computed.
NoHeader == [category |-> U32({}), kind |-> U32({}), hash |-> ToUInt64(U32({})),
             computed |-> FALSE]


CtlVars == <<contexts, core_table, saved_core_table, supported_agents, inited>>
LibVars == <<header, kernel_object>>
ObsVars == <<construction_failed, fired, LibVars>>
HistVars == <<ac_calls, ac_done, ret_log, removed, ObsVars>>
LockVars == <<cb_lock, q_lock>>

(***************************************************************************)
(* Initial state: the controller as default-constructed, the runtime's     *)
(* table with its native entry points, the contexts already registered.    *)
(***************************************************************************)
NullTable == [hsa_queue_create_fn |-> "null", hsa_queue_destroy_fn |-> "null"]

Constructed(ctxs) ==
    /\ contexts \in ctxs
    /\ core_table = NativeTable
    /\ saved_core_table = NullTable
    /\ supported_agents = EmptyMap
    /\ inited = FALSE
    /\ queues = EmptyMap
    /\ callback_cache = EmptyMap
    /\ client_id = InitialClientID
    /\ cb_lock = NoThread
    /\ q_lock = NoThread
    /\ allocated = {}
    /\ fatal = FALSE
    /\ pc = [t \in Threads |-> "idle"]
    /\ frame = [t \in Threads |-> NoFrame]
    /\ ac_calls = 0
    /\ ac_done = 0
    /\ ret_log = {}
    /\ removed = {}
    /\ construction_failed = {}
    /\ fired = << >>

InitWith(ctxs) ==
    /\ Constructed(ctxs)
    /\ header = NoHeader
    /\ kernel_object = NoKernelObject

(***************************************************************************)
(* QueueController::init(core_table, ext_table).  fails is the set of      *)
(* ordinals whose AgentCache constructor throws.                           *)
(***************************************************************************)
ControllerInit(fails) ==
    /\ Running
    /\ saved_core_table' = core_table
    /\ supported_agents' = GenerateSupportedAgents(supported_agents, 0, fails)
    /\ core_table' = InstallHooks(core_table, EnableIntercepter(contexts, 1))
    /\ inited' = TRUE
    /\ construction_failed' = fails
    /\ UNCHANGED <<contexts, queues, callback_cache, client_id, cb_lock, q_lock,
                   allocated, fatal, pc, frame, ac_calls, ac_done, ret_log, removed,
                   fired, LibVars>>

(***************************************************************************)
(* The application calls the runtime's queue-create entry point for the    *)
(* agent with handle a.  The slot holds either the native function or the  *)
(* controller's create_queue.  The application creates and destroys        *)
(* queues only after init has run (queue_controller.hpp, lines 40-41).     *)
(***************************************************************************)

\* The native entry point: the runtime hands out a handle that is not live.
NativeQueueCreate(t, a) ==
    /\ Running /\ inited
    /\ pc[t] = "idle"
    /\ core_table.hsa_queue_create_fn = "native_create"
    /\ \E h \in Handles \ allocated : allocated' = allocated \cup {h}
    /\ UNCHANGED <<CtlVars, HistVars, LockVars, queues, callback_cache, client_id,
                   fatal, pc, frame>>

\* create_queue, lines 43-57: the agent is supported; the Queue is
\* constructed around a new native queue and add_queue is entered.
CreateQueueHook(t, a) ==
    /\ Running /\ inited
    /\ pc[t] = "idle"
    /\ core_table.hsa_queue_create_fn = "create_queue"
    /\ FindAgent(supported_agents, a) # {}
    /\ \E h \in Handles \ allocated :
          /\ allocated' = allocated \cup {h}
          /\ frame' = [frame EXCEPT ![t] = [NoFrame EXCEPT !.agent = a, !.h = h]]
    /\ pc' = [pc EXCEPT ![t] = "aq_cb"]
    /\ UNCHANGED <<CtlVars, HistVars, LockVars, queues, callback_cache, client_id, fatal>>

\* create_queue, line 61: no supported agent has the handle; LOG(FATAL)
\* aborts the process: no thread takes another step.  The calling thread
\* stays in the hook, at the call for agent a.
CreateQueueFatal(t, a) ==
    /\ Running /\ inited
    /\ pc[t] = "idle"
    /\ core_table.hsa_queue_create_fn = "create_queue"
    /\ FindAgent(supported_agents, a) = {}
    /\ fatal' = TRUE
    /\ frame' = [frame EXCEPT ![t] = [NoFrame EXCEPT !.agent = a]]
    /\ pc' = [pc EXCEPT ![t] = "cq_fatal"]
    /\ UNCHANGED <<CtlVars, HistVars, LockVars, queues, callback_cache, client_id,
                   allocated>>

(***************************************************************************)
(* QueueController::add_queue(id, queue).                                  *)
(***************************************************************************)
AddQueueLockCallbacks(t) ==
    /\ Running
    /\ pc[t] = "aq_cb"
    /\ WLockFree(cb_lock)
    /\ cb_lock' = t
    /\ pc' = [pc EXCEPT ![t] = "aq_q"]
    /\ UNCHANGED <<CtlVars, HistVars, q_lock, queues, callback_cache, client_id,
                   allocated, fatal, frame>>

AddQueueLockQueues(t) ==
    /\ Running
    /\ pc[t] = "aq_q"
    /\ WLockFree(q_lock)
    /\ q_lock' = t
    /\ pc' = [pc EXCEPT ![t] = "aq_ins"]
    /\ UNCHANGED <<CtlVars, HistVars, cb_lock, queues, callback_cache, client_id,
                   allocated, fatal, frame>>

\* An insertion that moves the agent's cache entry out of the Agent
\* Capability Cache.
AddQueueInsertEvictingAgent(t) ==
    /\ Running
    /\ pc[t] = "aq_ins"
    /\ queues' = InsertQueue(queues, frame[t].h, NewQueue(frame[t].agent))
    /\ supported_agents' =
          [i \in DOMAIN supported_agents \ FindAgent(supported_agents, frame[t].agent)
              |-> supported_agents[i]]
    /\ pc' = [pc EXCEPT ![t] = "aq_fill"]
    /\ UNCHANGED <<contexts, core_table, saved_core_table, inited, HistVars, LockVars,
                   callback_cache, client_id, allocated, fatal, frame>>

AddQueueInsert(t) ==
    /\ Running
    /\ pc[t] = "aq_ins"
    /\ queues' = InsertQueue(queues, frame[t].h, NewQueue(frame[t].agent))
    /\ pc' = [pc EXCEPT ![t] = "aq_fill"]
    /\ UNCHANGED <<CtlVars, HistVars, LockVars, callback_cache, client_id,
                   allocated, fatal, frame>>

\* The loop over the cache, in one of the orders the container can give,
\* then the inner lambda returns: _queues unlocks.
AddQueueBackfill(t) ==
    /\ Running
    /\ pc[t] = "aq_fill"
    /\ \E ids \in IterationOrders(DOMAIN callback_cache) :
          queues' =
              IF frame[t].h \in DOMAIN queues
              THEN [queues EXCEPT ![frame[t].h] =
                       BackfillCallbacks(callback_cache, ids,
                                         queues[frame[t].h], frame[t].agent)]
              ELSE queues
    /\ q_lock' = NoThread
    /\ pc' = [pc EXCEPT ![t] = "aq_ret"]
    /\ UNCHANGED <<CtlVars, HistVars, cb_lock, callback_cache, client_id,
                   allocated, fatal, frame>>

\* A return that leaves the registry locked.
AddQueueReturnHoldingLock(t) ==
    /\ Running
    /\ pc[t] = "aq_ret"
    /\ pc' = [pc EXCEPT ![t] = "idle"]
    /\ frame' = [frame EXCEPT ![t] = NoFrame]
    /\ UNCHANGED <<CtlVars, HistVars, LockVars, queues, callback_cache, client_id,
                   allocated, fatal>>

\* The outer lambda returns: _callback_cache unlocks; create_queue returns
\* HSA_STATUS_SUCCESS.
AddQueueReturn(t) ==
    /\ Running
    /\ pc[t] = "aq_ret"
    /\ cb_lock' = NoThread
    /\ pc' = [pc EXCEPT ![t] = "idle"]
    /\ frame' = [frame EXCEPT ![t] = NoFrame]
    /\ UNCHANGED <<CtlVars, HistVars, q_lock, queues, callback_cache, client_id,
                   allocated, fatal>>

(***************************************************************************)
(* The application calls the runtime's queue-destroy entry point with      *)
(* handle h, live or not.                                                  *)
(***************************************************************************)
NativeQueueDestroy(t, h) ==
    /\ Running /\ inited
    /\ pc[t] = "idle"
    /\ core_table.hsa_queue_destroy_fn = "native_destroy"
    /\ allocated' = allocated \ {h}
    /\ UNCHANGED <<CtlVars, HistVars, LockVars, queues, callback_cache, client_id,
                   fatal, pc, frame>>

\* destroy_queue, line 68: the hook enters QueueController::destory_queue.
DestroyQueueHook(t, h) ==
    /\ Running /\ inited
    /\ pc[t] = "idle"
    /\ core_table.hsa_queue_destroy_fn = "destroy_queue"
    /\ frame' = [frame EXCEPT ![t] = [NoFrame EXCEPT !.h = h]]
    /\ pc' = [pc EXCEPT ![t] = "dq_q"]
    /\ UNCHANGED <<CtlVars, HistVars, LockVars, queues, callback_cache, client_id,
                   allocated, fatal>>

\* A destroy that erases without taking the table's writer lock.
DestroyQueueWithoutLock(t) ==
    /\ Running
    /\ pc[t] = "dq_q"
    /\ pc' = [pc EXCEPT ![t] = "dq_erase"]
    /\ UNCHANGED <<CtlVars, HistVars, LockVars, queues, callback_cache, client_id,
                   allocated, fatal, frame>>

\* A destroy that, holding the table lock, goes on to take the registry
\* lock and drop the subscriptions as remove_callback does.
DestroyQueueLockQueuesThenRegistry(t) ==
    /\ Running
    /\ pc[t] = "dq_q"
    /\ WLockFree(q_lock)
    /\ q_lock' = t
    /\ pc' = [pc EXCEPT ![t] = "rc_cb"]
    /\ UNCHANGED <<CtlVars, HistVars, cb_lock, queues, callback_cache, client_id,
                   allocated, fatal, frame>>

DestroyQueueLockQueues(t) ==
    /\ Running
    /\ pc[t] = "dq_q"
    /\ WLockFree(q_lock)
    /\ q_lock' = t
    /\ pc' = [pc EXCEPT ![t] = "dq_erase"]
    /\ UNCHANGED <<CtlVars, HistVars, cb_lock, queues, callback_cache, client_id,
                   allocated, fatal, frame>>

\* A destroy that puts the saved entry points back into the runtime's
\* table when it has released the last live queue.
DestroyQueueEraseUninstalling(t) ==
    /\ Running
    /\ pc[t] = "dq_erase"
    /\ queues' = EraseQueue(queues, frame[t].h)
    /\ allocated' = allocated \ (DOMAIN queues \ DOMAIN queues')
    /\ core_table' = IF queues' = EmptyMap THEN saved_core_table ELSE core_table
    /\ q_lock' = NoThread
    /\ pc' = [pc EXCEPT ![t] = "idle"]
    /\ frame' = [frame EXCEPT ![t] = NoFrame]
    /\ UNCHANGED <<contexts, saved_core_table, supported_agents, inited, HistVars,
                   cb_lock, callback_cache, client_id, fatal>>

\* A destroy that also drops the registry entries of the erased queue's
\* agent, as if a subscription belonged to the queue.
DestroyQueueEraseDroppingSubscriptions(t) ==
    /\ Running
    /\ pc[t] = "dq_erase"
    /\ queues' = EraseQueue(queues, frame[t].h)
    /\ allocated' = allocated \ (DOMAIN queues \ DOMAIN queues')
    /\ callback_cache' =
          IF frame[t].h \in DOMAIN queues
          THEN [id \in {i \in DOMAIN callback_cache :
                           callback_cache[i][1] # queues[frame[t].h].agent} |->
                    callback_cache[id]]
          ELSE callback_cache
    /\ q_lock' = NoThread
    /\ pc' = [pc EXCEPT ![t] = "idle"]
    /\ frame' = [frame EXCEPT ![t] = NoFrame]
    /\ UNCHANGED <<CtlVars, HistVars, cb_lock, client_id, fatal>>

\* map.erase(id); an erased Queue is released and with it its native queue.
\* The lambda returns, _queues unlocks, the hook returns HSA_STATUS_SUCCESS.
DestroyQueueErase(t) ==
    /\ Running
    /\ pc[t] = "dq_erase"
    /\ queues' = EraseQueue(queues, frame[t].h)
    /\ allocated' = allocated \ (DOMAIN queues \ DOMAIN queues')
    /\ q_lock' = NoThread
    /\ pc' = [pc EXCEPT ![t] = "idle"]
    /\ frame' = [frame EXCEPT ![t] = NoFrame]
    /\ UNCHANGED <<CtlVars, HistVars, cb_lock, callback_cache, client_id, fatal>>

(***************************************************************************)
(* QueueController::add_callback(agent, qcb, ccb).  The model stops        *)
(* issuing calls once MaxCallbacks of them have been started.              *)
(***************************************************************************)
AddCallbackCall(t, a) ==
    /\ Running
    /\ pc[t] = "idle"
    /\ ac_calls < MaxCallbacks
    /\ ac_calls' = ac_calls + 1
    /\ frame' = [frame EXCEPT ![t] =
          [NoFrame EXCEPT !.agent = a,
                          !.qcb = CallbackPair(ac_calls + 1)[1],
                          !.ccb = CallbackPair(ac_calls + 1)[2],
                          !.call = ac_calls + 1,
                          !.quiet = (ac_done = ac_calls),
                          !.before = MaxOf({r.id : r \in ret_log})]]
    /\ pc' = [pc EXCEPT ![t] = "ac_cb"]
    /\ UNCHANGED <<CtlVars, LockVars, queues, callback_cache, client_id, allocated,
                   fatal, ac_done, ret_log, removed, ObsVars>>

\* An add_callback that reads and advances the counter before it takes
\* the registry lock.
AddCallbackWithoutRegistryLock(t) ==
    /\ Running
    /\ pc[t] = "ac_cb"
    /\ pc' = [pc EXCEPT ![t] = "ac_read"]
    /\ UNCHANGED <<CtlVars, HistVars, LockVars, queues, callback_cache, client_id,
                   allocated, fatal, frame>>

AddCallbackLockCallbacks(t) ==
    /\ Running
    /\ pc[t] = "ac_cb"
    /\ WLockFree(cb_lock)
    /\ cb_lock' = t
    /\ pc' = [pc EXCEPT ![t] = "ac_read"]
    /\ UNCHANGED <<CtlVars, HistVars, q_lock, queues, callback_cache, client_id,
                   allocated, fatal, frame>>

\* line 107: return_id = client_id.
AddCallbackRead(t) ==
    /\ Running
    /\ pc[t] = "ac_read"
    /\ frame' = [frame EXCEPT ![t].return_id = client_id]
    /\ pc' = [pc EXCEPT ![t] = "ac_store"]
    /\ UNCHANGED <<CtlVars, HistVars, LockVars, queues, callback_cache, client_id,
                   allocated, fatal>>

\* line 108: cb_cache[client_id] = std::tuple(agent, qcb, ccb).
AddCallbackStore(t) ==
    /\ Running
    /\ pc[t] = "ac_store"
    /\ callback_cache' =
          StoreCallback(callback_cache, client_id, frame[t].agent, frame[t].qcb,
                        frame[t].ccb)
    /\ pc' = [pc EXCEPT ![t] = "ac_inc"]
    /\ UNCHANGED <<CtlVars, HistVars, LockVars, queues, client_id, allocated, fatal,
                   frame>>

\* line 109: client_id++.
AddCallbackIncrement(t) ==
    /\ Running
    /\ pc[t] = "ac_inc"
    /\ client_id' = NextClientID(client_id)
    /\ pc' = [pc EXCEPT ![t] = "ac_q"]
    /\ UNCHANGED <<CtlVars, HistVars, LockVars, queues, callback_cache, allocated,
                   fatal, frame>>

AddCallbackLockQueues(t) ==
    /\ Running
    /\ pc[t] = "ac_q"
    /\ WLockFree(q_lock)
    /\ q_lock' = t
    /\ pc' = [pc EXCEPT ![t] = "ac_scan"]
    /\ UNCHANGED <<CtlVars, HistVars, cb_lock, queues, callback_cache, client_id,
                   allocated, fatal, frame>>

\* The loop over the live queues, then the inner lambda returns.
AddCallbackScan(t) ==
    /\ Running
    /\ pc[t] = "ac_scan"
    /\ queues' = ScanRegister(queues, frame[t].agent, frame[t].return_id,
                              frame[t].qcb, frame[t].ccb)
    /\ q_lock' = NoThread
    /\ pc' = [pc EXCEPT ![t] = "ac_ret"]
    /\ UNCHANGED <<CtlVars, HistVars, cb_lock, callback_cache, client_id, allocated,
                   fatal, frame>>

\* The outer lambda returns, _callback_cache unlocks, return return_id.
AddCallbackReturn(t) ==
    /\ Running
    /\ pc[t] = "ac_ret"
    /\ cb_lock' = NoThread
    /\ ac_done' = ac_done + 1
    /\ ret_log' = ret_log \cup
          {[call |-> frame[t].call, id |-> frame[t].return_id,
            agent |-> frame[t].agent, qcb |-> frame[t].qcb, ccb |-> frame[t].ccb]}
    /\ pc' = [pc EXCEPT ![t] = "idle"]
    /\ frame' = [frame EXCEPT ![t] = NoFrame]
    /\ UNCHANGED <<CtlVars, q_lock, queues, callback_cache, client_id, allocated,
                   fatal, ac_calls, removed, ObsVars>>

(***************************************************************************)
(* QueueController::remove_callback(id).                                   *)
(***************************************************************************)
RemoveCallbackCall(t, id) ==
    /\ Running
    /\ pc[t] = "idle"
    /\ frame' = [frame EXCEPT ![t] = [NoFrame EXCEPT !.id = id]]
    /\ pc' = [pc EXCEPT ![t] = "rc_cb"]
    /\ UNCHANGED <<CtlVars, HistVars, LockVars, queues, callback_cache, client_id,
                   allocated, fatal>>

RemoveCallbackLockCallbacks(t) ==
    /\ Running
    /\ pc[t] = "rc_cb"
    /\ WLockFree(cb_lock)
    /\ cb_lock' = t
    /\ pc' = [pc EXCEPT ![t] = "rc_erase"]
    /\ UNCHANGED <<CtlVars, HistVars, q_lock, queues, callback_cache, client_id,
                   allocated, fatal, frame>>

\* line 127: cb_cache.erase(id).  issued records whether the counter had
\* already passed id when the registry was erased.
RemoveCallbackErase(t) ==
    /\ Running
    /\ pc[t] = "rc_erase"
    /\ callback_cache' = EraseCallback(callback_cache, frame[t].id)
    /\ frame' = [frame EXCEPT ![t].issued = (frame[t].id < client_id)]
    /\ pc' = [pc EXCEPT ![t] = "rc_q"]
    /\ UNCHANGED <<CtlVars, HistVars, LockVars, queues, client_id, allocated, fatal>>

RemoveCallbackLockQueues(t) ==
    /\ Running
    /\ pc[t] = "rc_q"
    /\ WLockFree(q_lock)
    /\ q_lock' = t
    /\ pc' = [pc EXCEPT ![t] = "rc_scan"]
    /\ UNCHANGED <<CtlVars, HistVars, cb_lock, queues, callback_cache, client_id,
                   allocated, fatal, frame>>

\* The loop over the live queues, then the inner lambda returns.
RemoveCallbackScan(t) ==
    /\ Running
    /\ pc[t] = "rc_scan"
    /\ queues' = ScanRemove(queues, frame[t].id)
    /\ q_lock' = NoThread
    /\ pc' = [pc EXCEPT ![t] = "rc_ret"]
    /\ UNCHANGED <<CtlVars, HistVars, cb_lock, callback_cache, client_id, allocated,
                   fatal, frame>>

\* The outer lambda returns, _callback_cache unlocks, remove_callback returns.
RemoveCallbackReturn(t) ==
    /\ Running
    /\ pc[t] = "rc_ret"
    /\ cb_lock' = NoThread
    /\ removed' = removed \cup {[id |-> frame[t].id, issued |-> frame[t].issued]}
    /\ pc' = [pc EXCEPT ![t] = "idle"]
    /\ frame' = [frame EXCEPT ![t] = NoFrame]
    /\ UNCHANGED <<CtlVars, q_lock, queues, callback_cache, client_id, allocated,
                   fatal, ac_calls, ac_done, ret_log, ObsVars>>

(***************************************************************************)
(* The specification of the controller under concurrent threads.           *)
(***************************************************************************)
MaxContexts == 2

MainContexts ==
    {<< >>,
     <<Context(FALSE, TRUE, {ROCPROFILER_SERVICE_BUFFER_TRACING_HSA_API}),
       Context(FALSE, FALSE, {})>>,
     <<Context(FALSE, TRUE, {ROCPROFILER_SERVICE_BUFFER_TRACING_HSA_API}),
       Context(FALSE, TRUE, {ROCPROFILER_SERVICE_BUFFER_TRACING_KERNEL_DISPATCH})>>}

Init == InitWith(MainContexts)

GpuOrdinals == {i \in Ordinals : AgentType(i) = ROCPROFILER_AGENT_TYPE_GPU}

\* The AgentCache constructions that fail at init: none, or the first GPU's.
MainFails == {{}, {1}}

\* The agents clients register callbacks for: the accelerators.
CallbackAgents == {AgentHandle(i) : i \in GpuOrdinals}

Next ==
    \/ \E fails \in MainFails : ~inited /\ ControllerInit(fails)
    \/ \E t \in Threads, a \in AgentHandles : NativeQueueCreate(t, a)
    \/ \E t \in Threads, a \in AgentHandles : CreateQueueHook(t, a)
    \/ \E t \in Threads, a \in AgentHandles : CreateQueueFatal(t, a)
    \/ \E t \in Threads : AddQueueLockCallbacks(t)
    \/ \E t \in Threads : AddQueueLockQueues(t)
    \/ \E t \in Threads : AddQueueInsert(t)
    \/ \E t \in Threads : AddQueueBackfill(t)
    \/ \E t \in Threads : AddQueueReturn(t)
    \/ \E t \in Threads, h \in Handles : NativeQueueDestroy(t, h)
    \/ \E t \in Threads, h \in Handles : DestroyQueueHook(t, h)
    \/ \E t \in Threads : DestroyQueueLockQueues(t)
    \/ \E t \in Threads : DestroyQueueErase(t)
    \/ \E t \in Threads, a \in CallbackAgents : AddCallbackCall(t, a)
    \/ \E t \in Threads : AddCallbackLockCallbacks(t)
    \/ \E t \in Threads : AddCallbackRead(t)
    \/ \E t \in Threads : AddCallbackStore(t)
    \/ \E t \in Threads : AddCallbackIncrement(t)
    \/ \E t \in Threads : AddCallbackLockQueues(t)
    \/ \E t \in Threads : AddCallbackScan(t)
    \/ \E t \in Threads : AddCallbackReturn(t)
    \/ \E t \in Threads, id \in ClientIDs : RemoveCallbackCall(t, id)
    \/ \E t \in Threads : RemoveCallbackLockCallbacks(t)
    \/ \E t \in Threads : RemoveCallbackErase(t)
    \/ \E t \in Threads : RemoveCallbackLockQueues(t)
    \/ \E t \in Threads : RemoveCallbackScan(t)
    \/ \E t \in Threads : RemoveCallbackReturn(t)

Spec == Init /\ [][Next]_vars

(***************************************************************************)
(* The specification of init alone, over every list of at most             *)
(* MaxContexts registered contexts and every set of failing constructions. *)
(***************************************************************************)
ContextKinds ==
    {Context(cc, FALSE, {}) : cc \in BOOLEAN}
    \cup {Context(cc[1], TRUE, cc[2]) : cc \in BOOLEAN \X SUBSET TracingDomains}

ContextLists == UNION {[1..n -> ContextKinds] : n \in 0..MaxContexts}

InitPolicy == InitWith(ContextLists)

NextPolicy == \E fails \in SUBSET GpuOrdinals : ~inited /\ ControllerInit(fails)

SpecPolicy == InitPolicy /\ [][NextPolicy]_vars

(***************************************************************************)
(* The specification of the controller under fair scheduling.  A thread    *)
(* inside a call that can take its next step eventually takes it, and a    *)
(* thread that asks for a lock which is free again and again eventually    *)
(* gets it.  Interception is enabled and every AgentCache is constructed;  *)
(* clients register callbacks for the first accelerator.                   *)
(***************************************************************************)
Acquire(t) ==
    \/ AddQueueLockCallbacks(t)
    \/ AddQueueLockQueues(t)
    \/ DestroyQueueLockQueues(t)
    \/ AddCallbackLockCallbacks(t)
    \/ AddCallbackLockQueues(t)
    \/ RemoveCallbackLockCallbacks(t)
    \/ RemoveCallbackLockQueues(t)

Proceed(t) ==
    \/ AddQueueInsert(t)
    \/ AddQueueBackfill(t)
    \/ AddQueueReturn(t)
    \/ DestroyQueueErase(t)
    \/ AddCallbackRead(t)
    \/ AddCallbackStore(t)
    \/ AddCallbackIncrement(t)
    \/ AddCallbackScan(t)
    \/ AddCallbackReturn(t)
    \/ RemoveCallbackErase(t)
    \/ RemoveCallbackScan(t)
    \/ RemoveCallbackReturn(t)

FairContexts ==
    {<<Context(TRUE, FALSE, {})>>}

InitFair == InitWith(FairContexts)

NextFair ==
    \/ ~inited /\ ControllerInit({})
    \/ \E t \in Threads, a \in AgentHandles : CreateQueueHook(t, a)
    \/ \E t \in Threads, a \in AgentHandles : CreateQueueFatal(t, a)
    \/ \E t \in Threads, h \in Handles : DestroyQueueHook(t, h)
    \/ \E t \in Threads : AddCallbackCall(t, AgentHandle(1))
    \/ \E t \in Threads, id \in ClientIDs : RemoveCallbackCall(t, id)
    \/ \E t \in Threads : Acquire(t)
    \/ \E t \in Threads : Proceed(t)

Fairness == \A t \in Threads : WF_vars(Proceed(t)) /\ SF_vars(Acquire(t))

SpecFair == InitFair /\ [][NextFair]_vars /\ Fairness

(***************************************************************************)
(* The specification of the controller with add_queue called directly.     *)
(* add_queue is a public member (queue_controller.hpp, line 45): besides   *)
(* the create hook, a caller hands it a Queue of a supported agent under a *)
(* handle of the caller's choice, live or not.                             *)
(***************************************************************************)
AddQueueCall(t, h, a) ==
    /\ Running /\ inited
    /\ pc[t] = "idle"
    /\ FindAgent(supported_agents, a) # {}
    /\ allocated' = allocated \cup {h}
    /\ frame' = [frame EXCEPT ![t] = [NoFrame EXCEPT !.agent = a, !.h = h]]
    /\ pc' = [pc EXCEPT ![t] = "aq_cb"]
    /\ UNCHANGED <<CtlVars, HistVars, LockVars, queues, callback_cache, client_id, fatal>>

NextDirect ==
    \/ NextFair
    \/ \E t \in Threads, h \in Handles, a \in AgentHandles : AddQueueCall(t, h, a)

SpecDirect == InitFair /\ [][NextDirect]_vars

(***************************************************************************)
(* The specification of init invoked again: the same runtime table, the    *)
(* same registered contexts and the same AgentCache constructors throwing. *)
(***************************************************************************)
NextReinit ==
    \E fails \in SUBSET GpuOrdinals :
        /\ inited => fails = construction_failed
        /\ ControllerInit(fails)

SpecReinit == InitPolicy /\ [][NextReinit]_vars

(***************************************************************************)
(* The specification of the controller with dispatches.  A submission on   *)
(* the live queue h reaches an instrumentation point, where the pairs of   *)
(* the queue's snapshot fire in the order in which they were registered    *)
(* with the queue.                                                         *)
(***************************************************************************)
Dispatch(h) ==
    /\ Running
    /\ h \in DOMAIN queues
    /\ fired' = queues[h].order
    /\ UNCHANGED <<CtlVars, LockVars, queues, callback_cache, client_id, allocated,
                   fatal, pc, frame, ac_calls, ac_done, ret_log, removed,
                   construction_failed, LibVars>>

NextDispatch ==
    \/ NextFair
    \/ \E h \in Handles : Dispatch(h)

SpecDispatch == InitFair /\ [][NextDispatch]_vars

(***************************************************************************)
(* The record header discriminant alone.  The category and the kind are    *)
(* drawn from 32-bit values at and around the ends of the range and from   *)
(* the values of the enumerations; the one step computes the hash.         *)
(***************************************************************************)
Word32Samples ==
    {U32({}), U32({0}), U32({1}), U32({0, 1}), U32({0, 2}), U32({31}),
     U32({0, 31}), U32(0..30), U32(1..31), U32(0..31)}

InitHash ==
    /\ Constructed({<< >>})
    /\ header \in {[NoHeader EXCEPT !.category = c, !.kind = k] :
                        c \in Word32Samples, k \in Word32Samples}
    /\ kernel_object = NoKernelObject

ComputeHash ==
    /\ ~header.computed
    /\ header' = [header EXCEPT
                     !.hash = rocprofiler_record_header_compute_hash(header.category,
                                                                     header.kind),
                     !.computed = TRUE]
    /\ UNCHANGED <<CtlVars, LockVars, queues, callback_cache, client_id, allocated,
                   fatal, pc, frame, ac_calls, ac_done, ret_log, removed,
                   construction_failed, fired, kernel_object>>

NextHash == ComputeHash

SpecHash == InitHash /\ [][NextHash]_vars

(***************************************************************************)
(* KernelObject's constructor alone.  The range is drawn from addresses at *)
(* the bottom and at the top of the 64-bit address space, both ends from   *)
(* the same group; the translator returns, for every address it is asked   *)
(* for, the instruction that starts there, of a size of 0, 4 or 8 bytes.   *)
(* The object holds at most MaxInstructions instructions.                  *)
(***************************************************************************)
MaxInstructions == 4

\* 0, 4, 8 and 12.
LowAddresses == {UInt64(0, 0), UInt64(4, 0), UInt64(8, 0), UInt64(12, 0)}

\* 2^64 - 12, 2^64 - 8, 2^64 - 4 and 2^64 - 1.
HighAddresses == {UInt64(244, 255), UInt64(248, 255), UInt64(252, 255), UInt64(255, 255)}

\* 0, 4 and 8 bytes.
InstructionSizes == {UInt64(0, 0), UInt64(4, 0), UInt64(8, 0)}

\* Lines 101-107: the member initialisers and vaddr = begin_address.
NewKernelObject(begin_address, end_address) ==
    [begin_address |-> begin_address, end_address |-> end_address,
     vaddr |-> begin_address, instructions |-> << >>, pc |-> "while"]

\* translator.get(code_object_id, vaddr): the instruction at vaddr.
TranslatorGet(vaddr, size) == [vaddr |-> vaddr, size |-> size]

InitDecode ==
    /\ Constructed({<< >>})
    /\ header = NoHeader
    /\ kernel_object \in
          {NewKernelObject(b, e) : b \in LowAddresses, e \in LowAddresses}
          \cup {NewKernelObject(b, e) : b \in HighAddresses, e \in HighAddresses}

\* Lines 108-113: the loop condition holds; one instruction is decoded and
\* added, and vaddr moves on by its size.
DecodeInstruction(size) ==
    /\ kernel_object.pc = "while"
    /\ Less64(kernel_object.vaddr, kernel_object.end_address)
    /\ Len(kernel_object.instructions) < MaxInstructions
    /\ LET inst == TranslatorGet(kernel_object.vaddr, size)
       IN  kernel_object' =
               [kernel_object EXCEPT
                   !.vaddr = Add64(kernel_object.vaddr, inst.size),
                   !.instructions = Append(kernel_object.instructions, inst)]
    /\ UNCHANGED <<CtlVars, LockVars, queues, callback_cache, client_id, allocated,
                   fatal, pc, frame, ac_calls, ac_done, ret_log, removed,
                   construction_failed, fired, header>>

\* Line 108: the loop condition fails; the constructor returns.
DecodeReturn ==
    /\ kernel_object.pc = "while"
    /\ ~Less64(kernel_object.vaddr, kernel_object.end_address)
    /\ kernel_object' = [kernel_object EXCEPT !.pc = "done"]
    /\ UNCHANGED <<CtlVars, LockVars, queues, callback_cache, client_id, allocated,
                   fatal, pc, frame, ac_calls, ac_done, ret_log, removed,
                   construction_failed, fired, header>>

NextDecode ==
    \/ \E size \in InstructionSizes : DecodeInstruction(size)
    \/ DecodeReturn

\* The constructor runs on one thread, which keeps running.
FairDecode == WF_vars(NextDecode)

SpecDecode == InitDecode /\ [][NextDecode]_vars /\ FairDecode

(***************************************************************************)
(* Properties.                                                             *)
(***************************************************************************)
AllReturned == \A t \in Threads : pc[t] = "idle"

\* A remove_callback(id) that ran when id had been allocated has returned.
RemovedAfterIssue(id) == \E r \in removed : r.id = id /\ r.issued

Holds(h, id) == h \in DOMAIN queues /\ id \in DOMAIN queues[h].callbacks

\* C1 (no missed callback): when every call has returned, each identifier
\* that add_callback returned for an agent and that has not been removed
\* is in the snapshot of every live queue of that agent, whatever the
\* interleaving of add_callback with the create hooks was.
C1_NoMissedCallback ==
    AllReturned =>
        \A r \in ret_log :
            ~RemovedAfterIssue(r.id) =>
                \A h \in DOMAIN queues :
                    queues[h].agent = r.agent => Holds(h, r.id)

\* Every call has returned, and two live queues of one agent both hold an
\* identifier add_callback returned for it.
C1_Witness ==
    /\ AllReturned
    /\ \E r \in ret_log :
          /\ ~RemovedAfterIssue(r.id)
          /\ \E h1, h2 \in DOMAIN queues :
                /\ h1 # h2
                /\ queues[h1].agent = r.agent /\ queues[h2].agent = r.agent
                /\ Holds(h1, r.id) /\ Holds(h2, r.id)

\* The registry's entries for an agent, as a queue's snapshot holds them.
ExpectedSnapshot(agent) ==
    [id \in {i \in DOMAIN callback_cache : callback_cache[i][1] = agent} |->
        <<callback_cache[id][2], callback_cache[id][3]>>]

NoLockHeld == cb_lock = NoThread /\ q_lock = NoThread

\* C2 (snapshot invariant): whenever neither lock is held, the snapshot of
\* every live queue is exactly the registry's entries for the queue's
\* agent, with the same callback pairs.
C2_SnapshotInvariant ==
    NoLockHeld =>
        \A h \in DOMAIN queues :
            queues[h].callbacks = ExpectedSnapshot(queues[h].agent)

\* No lock is held, a live queue holds a callback, and the registry also
\* holds an entry of another agent, which the queue does not hold.
C2_Witness ==
    /\ NoLockHeld
    /\ \E h \in DOMAIN queues :
          /\ queues[h].callbacks # EmptyMap
          /\ \E id \in DOMAIN callback_cache :
                callback_cache[id][1] # queues[h].agent

\* C3 as stated, for every identifier: once remove_callback(id) has
\* returned, id is in no live queue's snapshot and not in the registry, in
\* this and every later state.
C3_CleanRemovalAnyId ==
    \A r \in removed :
        /\ r.id \notin DOMAIN callback_cache
        /\ \A h \in DOMAIN queues : ~Holds(h, r.id)

\* C3 (clean removal), for an identifier the counter had already passed
\* when remove_callback erased the registry: once remove_callback(id) has
\* returned, id is in no live queue's snapshot and not in the registry, in
\* this and every later state, so no queue created afterwards receives it.
C3_CleanRemoval ==
    \A r \in removed :
        r.issued =>
            /\ r.id \notin DOMAIN callback_cache
            /\ \A h \in DOMAIN queues : ~Holds(h, r.id)

\* An identifier that add_callback returned has been removed, and a queue
\* of its agent is live.
C3_Witness ==
    \E r \in removed, c \in ret_log :
        /\ r.issued
        /\ c.id = r.id
        /\ \E h \in DOMAIN queues : queues[h].agent = c.agent

\* The add_callback calls that have read their identifier: those that
\* returned and those still between line 107 and their return.
HasId == {"ac_store", "ac_inc", "ac_q", "ac_scan", "ac_ret"}

Registrations ==
    ret_log \cup
    {[call |-> frame[t].call, id |-> frame[t].return_id, agent |-> frame[t].agent,
      qcb |-> frame[t].qcb, ccb |-> frame[t].ccb] : t \in {u \in Threads : pc[u] \in HasId}}

\* C4 (agent isolation): an identifier in the snapshot of a queue was
\* registered by add_callback for that queue's agent, and for no other.
C4_AgentIsolation ==
    \A h \in DOMAIN queues :
        \A id \in DOMAIN queues[h].callbacks :
            /\ \E c \in Registrations : c.id = id /\ c.agent = queues[h].agent
            /\ \A c \in Registrations : c.id = id => c.agent = queues[h].agent

\* Queues of two agents are live; one holds a registered callback, the
\* other, whose agent has no callback, holds none.
C4_Witness ==
    \E h1, h2 \in DOMAIN queues :
        /\ queues[h1].agent # queues[h2].agent
        /\ queues[h1].callbacks # EmptyMap
        /\ queues[h2].callbacks = EmptyMap
        /\ AllReturned

\* A call is sequential when no add_callback was in progress when it
\* began and none began before it returned.
SequentialCall(t) == frame[t].quiet /\ ac_calls = frame[t].call

\* C5 (identifier monotonicity): the identifier a call of add_callback
\* returns is not 0, exceeds every identifier returned before the call
\* began, differs from every identifier returned so far, and, for the
\* n-th of n sequential calls, is n (the first is 1).
C5_IdentifierMonotonic ==
    [][\A t \in Threads :
          (pc[t] = "ac_ret" /\ pc'[t] = "idle") =>
              /\ frame[t].return_id # 0
              /\ frame[t].return_id > frame[t].before
              /\ \A c \in ret_log : c.id # frame[t].return_id
              /\ SequentialCall(t) =>
                    frame[t].return_id = InitialClientID + frame[t].call - 1]_vars

\* The second of two sequential add_callback calls is about to return,
\* after a remove_callback has returned and with a queue live.
C5_Witness ==
    \E t \in Threads :
        /\ pc[t] = "ac_ret"
        /\ SequentialCall(t)
        /\ frame[t].call = 2
        /\ removed # {}
        /\ queues # EmptyMap

\* remove_callback(id) has erased the registry after id was allocated.
EraseDone(id) ==
    \/ RemovedAfterIssue(id)
    \/ \E t \in Threads :
          pc[t] \in {"rc_q", "rc_scan", "rc_ret"} /\ frame[t].id = id /\ frame[t].issued

\* C6 (identifier uniqueness under concurrency): no two add_callback
\* calls, returned or in progress, have the same identifier, so a removed
\* identifier is not issued again; and the identifier returned to a caller
\* is the key of that caller's own triple in the registry (as long as it
\* is not removed) and of that caller's own pair on the queues of its
\* agent, and of nothing else.
C6_IdentifierUnique ==
    /\ \A c1, c2 \in Registrations : c1.call # c2.call => c1.id # c2.id
    /\ \A c \in ret_log :
          /\ ~EraseDone(c.id) => c.id \in DOMAIN callback_cache
          /\ c.id \in DOMAIN callback_cache =>
                callback_cache[c.id] = <<c.agent, c.qcb, c.ccb>>
          /\ \A h \in DOMAIN queues :
                Holds(h, c.id) =>
                    /\ queues[h].agent = c.agent
                    /\ queues[h].callbacks[c.id] = <<c.qcb, c.ccb>>
          /\ (NoLockHeld /\ ~EraseDone(c.id)) =>
                \A h \in DOMAIN queues : queues[h].agent = c.agent => Holds(h, c.id)

\* A call of add_callback that began while another was in progress is
\* about to return, the other has returned, and a queue holds a callback.
C6_Witness ==
    \E t \in Threads :
        /\ pc[t] = "ac_ret"
        /\ ~frame[t].quiet
        /\ ret_log # {}
        /\ \E h \in DOMAIN queues : queues[h].callbacks # EmptyMap

\* Thread t takes a step of destory_queue for a handle that is not live.
DestroyAbsentStep(t) ==
    /\ pc[t] \in {"dq_q", "dq_erase"}
    /\ pc'[t] # pc[t]
    /\ frame[t].h \notin DOMAIN queues

\* C7 (idempotent destroy): destory_queue for a handle that is not in the
\* live-queue table ends without a fatal error and leaves the table, every
\* queue in it and the registry as they were; and erasing a handle twice
\* gives the table that erasing it once gives.
C7_IdempotentDestroy ==
    /\ [](\A h \in Handles :
            EraseQueue(EraseQueue(queues, h), h) = EraseQueue(queues, h))
    /\ [][\A t \in Threads :
            DestroyAbsentStep(t) =>
                /\ queues' = queues
                /\ callback_cache' = callback_cache
                /\ fatal' = fatal
                /\ pc[t] = "dq_erase" => pc'[t] = "idle"]_vars

\* destory_queue is about to erase a handle that is not live while another
\* queue, holding a callback, is live.
C7_Witness ==
    \E t \in Threads :
        /\ pc[t] = "dq_erase"
        /\ frame[t].h \notin DOMAIN queues
        /\ \E h \in DOMAIN queues : queues[h].callbacks # EmptyMap

\* What the policy asks of one context.
NeedsInterception(ctx) ==
    \/ ctx.counter_collection
    \/ /\ ctx.buffered_tracer
       /\ \/ ROCPROFILER_SERVICE_BUFFER_TRACING_KERNEL_DISPATCH \in ctx.domains
          \/ ROCPROFILER_SERVICE_BUFFER_TRACING_MEMORY_COPY \in ctx.domains

AnyNeedsInterception(ctxs) == \E i \in 1..Len(ctxs) : NeedsInterception(ctxs[i])

HooksInstalled ==
    /\ core_table.hsa_queue_create_fn = "create_queue"
    /\ core_table.hsa_queue_destroy_fn = "destroy_queue"

\* C8 (policy gating): when no registered context has counter collection
\* or buffered tracing of kernel dispatches or memory copies, then after
\* init the runtime's table still holds its native entry points and the
\* live-queue table is empty, whatever the application creates or destroys.
C8_PolicyGating ==
    (inited /\ ~AnyNeedsInterception(contexts)) =>
        /\ core_table = NativeTable
        /\ queues = EmptyMap

\* init has run with a context that has a buffered tracer of another
\* domain only; the application has created a native queue and a client
\* has registered a callback.
C8_Witness ==
    /\ inited
    /\ ~AnyNeedsInterception(contexts)
    /\ \E i \in 1..Len(contexts) : contexts[i].buffered_tracer
    /\ allocated # {}
    /\ callback_cache # EmptyMap

Orderings(seq) ==
    {[i \in 1..Len(seq) |-> seq[p[i]]] :
        p \in {f \in [1..Len(seq) -> 1..Len(seq)] :
                  \A i, j \in 1..Len(seq) : f[i] = f[j] => i = j}}

\* C9 (policy decision): after init both hooks are installed if some
\* registered context needs interception, and otherwise both slots are the
\* native ones; the decision is the same for every order of the contexts.
\* So a context whose tracer covers other domains only does not enable
\* interception.
C9_PolicyDecision ==
    /\ inited => (HooksInstalled <=> AnyNeedsInterception(contexts))
    /\ inited => (HooksInstalled \/ core_table = NativeTable)
    /\ \A p \in Orderings(contexts) :
          EnableIntercepter(p, 1) = EnableIntercepter(contexts, 1)

\* init has installed the hooks for two contexts of which the first has a
\* buffered tracer that does not need interception and the second needs it.
C9_Witness ==
    /\ inited
    /\ HooksInstalled
    /\ Len(contexts) = 2
    /\ contexts[1].buffered_tracer
    /\ ~NeedsInterception(contexts[1])
    /\ NeedsInterception(contexts[2])

\* C10 (interception is permanent): once the hooks are installed they stay
\* installed, and after init no step changes the runtime's table.
C10_InterceptionPermanent ==
    [][/\ HooksInstalled => HooksInstalled'
       /\ inited => (inited' /\ core_table' = core_table)]_vars

\* The hooks are installed, a queue was created and destroyed again, and a
\* callback was registered and removed.
C10_Witness ==
    /\ HooksInstalled
    /\ AllReturned
    /\ queues = EmptyMap
    /\ \E r \in removed : r.issued
    /\ ret_log # {}
    /\ \E c \in ret_log : ~RemovedAfterIssue(c.id)

\* The Agent Capability Cache holds an entry for the agent with handle a.
Recognized(a) == \E i \in DOMAIN supported_agents : supported_agents[i].agent = a

\* The positions of a thread inside add_queue, reached from the create hook
\* once the Queue has been constructed.
InAddQueue == {"aq_cb", "aq_q", "aq_ins", "aq_fill", "aq_ret"}

ConstructedAgents ==
    {i \in Ordinals :
        AgentType(i) = ROCPROFILER_AGENT_TYPE_GPU /\ i \notin construction_failed}

\* C12 (agent cache construction): after init the cache holds an entry
\* for exactly the enumerated accelerators whose construction succeeded,
\* each under its ordinal and carrying that agent's handle; a failed
\* construction leaves the later agents their entries and init completes:
\* the policy decision is taken and the hooks are installed when needed.
C12_AgentCacheConstruction ==
    /\ ~inited => supported_agents = EmptyMap
    /\ inited =>
          /\ DOMAIN supported_agents = ConstructedAgents
          /\ \A i \in DOMAIN supported_agents :
                /\ supported_agents[i].index = i
                /\ supported_agents[i].agent = AgentHandle(i)
                /\ AgentType(i) = ROCPROFILER_AGENT_TYPE_GPU
          /\ HooksInstalled <=> AnyNeedsInterception(contexts)

\* init has run; the construction for the first accelerator failed, the
\* accelerator enumerated after it has its entry and the hooks are
\* installed.
C12_Witness ==
    /\ inited
    /\ HooksInstalled
    /\ \E i, j \in GpuOrdinals :
          /\ i < j
          /\ i \in construction_failed
          /\ j \in DOMAIN supported_agents

\* The positions at which a thread asks for the registry's writer lock
\* and for the table's writer lock.
WaitsRegistry == {"aq_cb", "ac_cb", "rc_cb"}
WaitsTable == {"aq_q", "dq_q", "ac_q", "rc_q"}

\* Thread t cannot proceed until thread u releases a lock.
WaitsFor(t, u) ==
    \/ pc[t] \in WaitsRegistry /\ cb_lock = u
    \/ pc[t] \in WaitsTable /\ q_lock = u

\* A set of threads each waiting for a lock held by a member of the set.
Deadlocked ==
    \E S \in SUBSET Threads :
        S # {} /\ \A t \in S : \E u \in S : WaitsFor(t, u)

\* C13 (fixed lock order): no thread that holds the table lock asks for
\* the registry lock; a thread of add_queue, add_callback or
\* remove_callback asks for and holds the table lock only while it holds
\* the registry lock; destory_queue holds the table lock alone; and no
\* set of threads waits in a cycle.
C13_FixedLockOrder ==
    /\ \A t \in Threads : q_lock = t => pc[t] \notin WaitsRegistry
    /\ \A t \in Threads : pc[t] \in {"aq_q", "ac_q", "rc_q"} => cb_lock = t
    /\ \A t \in Threads :
          q_lock = t =>
              \/ pc[t] = "dq_erase" /\ cb_lock # t
              \/ pc[t] \in {"aq_ins", "aq_fill", "ac_scan", "rc_scan"} /\ cb_lock = t
    /\ ~Deadlocked

\* A thread holds the registry lock and waits for the table lock, which a
\* destory_queue on another thread holds, while a queue is live.
C13_Witness ==
    \E t, u \in Threads :
        /\ t # u
        /\ cb_lock = t
        /\ pc[t] \in WaitsTable
        /\ q_lock = u
        /\ pc[u] = "dq_erase"
        /\ queues # EmptyMap

\* C14 (progress): under fair scheduling and fair lock hand-over every
\* call of add_queue, destory_queue, add_callback and remove_callback that
\* has begun returns, unless the process aborts; and a thread inside a call
\* that does not ask for a lock can always take its next step.
C14_Progress ==
    /\ \A t \in Threads : (pc[t] # "idle") ~> (pc[t] = "idle" \/ fatal)
    /\ [](\A t \in Threads :
            (pc[t] \notin ({"idle", "cq_fatal"} \cup WaitsRegistry \cup WaitsTable)
             /\ ~fatal) => ENABLED Proceed(t))

\* One thread is inside add_callback holding both locks, while the other
\* waits for the registry lock to add a queue, and a queue is live.
C14_Witness ==
    \E t, u \in Threads :
        /\ pc[t] = "ac_scan"
        /\ pc[u] = "aq_cb"
        /\ queues # EmptyMap

\* Thread t takes the step of add_callback that stores its registry entry.
StoreStep(t) ==
    /\ pc[t] = "ac_store" /\ pc'[t] = "ac_inc"
    /\ callback_cache' =
          MapPut(callback_cache, frame[t].return_id,
                 <<frame[t].agent, frame[t].qcb, frame[t].ccb>>)

\* Thread t takes the step of remove_callback that erases its identifier.
EraseStep(t) ==
    /\ pc[t] = "rc_erase" /\ pc'[t] = "rc_q"
    /\ callback_cache' = MapErase(callback_cache, frame[t].id)

\* Thread t takes a step of add_queue or of destory_queue.
QueueStep(t) ==
    /\ pc[t] \in InAddQueue \cup {"dq_q", "dq_erase"}
    /\ pc'[t] # pc[t]

\* No queue of the agent is live.
NoneLive(agent) == \A h \in DOMAIN queues : queues[h].agent # agent

\* C15 (subscriptions survive queue churn): the registry changes only by
\* add_callback storing its own entry and by remove_callback erasing its
\* identifier, never by a step of add_queue or destory_queue; an entry
\* that was returned and not removed stays in the registry; add_callback
\* for an agent without live queue stores its entry, changes no queue and
\* is no error; the backfill of a new queue gives it every registry entry
\* of its agent, and whenever no lock is held every live queue holds every
\* registry entry of its agent.
C15_SurvivesQueueChurn ==
    /\ [](/\ \A c \in ret_log :
                ~EraseDone(c.id) =>
                    /\ c.id \in DOMAIN callback_cache
                    /\ callback_cache[c.id][1] = c.agent
          /\ NoLockHeld =>
                \A h \in DOMAIN queues, id \in DOMAIN callback_cache :
                    callback_cache[id][1] = queues[h].agent => Holds(h, id))
    /\ [][/\ callback_cache' # callback_cache =>
                \E t \in Threads : StoreStep(t) \/ EraseStep(t)
          /\ \A t \in Threads : QueueStep(t) => callback_cache' = callback_cache
          /\ \A t \in Threads :
                (pc[t] = "aq_fill" /\ pc'[t] = "aq_ret") =>
                    /\ frame[t].h \in DOMAIN queues'
                    /\ \A id \in DOMAIN callback_cache :
                          callback_cache[id][1] = frame[t].agent =>
                              id \in DOMAIN queues'[frame[t].h].callbacks
          /\ \A t \in Threads :
                (pc[t] = "ac_scan" /\ pc'[t] = "ac_ret" /\ NoneLive(frame[t].agent)) =>
                    /\ queues' = queues
                    /\ ~fatal'
                    /\ frame[t].return_id \in DOMAIN callback_cache']_vars

\* A returned subscription is active; add_queue has just backfilled a new
\* queue of its agent with it while destory_queue, on the other thread, is
\* about to erase another live queue of that agent that holds it.
C15_Witness ==
    \E c \in ret_log, t, u \in Threads :
        /\ ~EraseDone(c.id)
        /\ pc[t] = "aq_ret"
        /\ frame[t].agent = c.agent
        /\ Holds(frame[t].h, c.id)
        /\ pc[u] = "dq_q"
        /\ frame[u].h # frame[t].h
        /\ Holds(frame[u].h, c.id)

\* The positions of add_callback at lines 107-109, where it reads the
\* counter, uses it as key and increments it.
Issuing == {"ac_read", "ac_store", "ac_inc"}

\* C16 as stated (lock-free identifier issuance): a thread that allocates
\* its identifier in add_callback holds neither the registry lock nor the
\* table lock.
C16_LockFreeIssuance ==
    \A t \in Threads : pc[t] \in Issuing => (cb_lock # t /\ q_lock # t)

\* C16 (identifier issuance under the registry lock): a thread that
\* allocates its identifier in add_callback holds the registry's writer
\* lock and not the table lock, so no other thread holds the registry lock
\* or allocates at the same time, while another thread may hold the table
\* lock; the counter moves only at line 109, by one.
C16_IssuanceUnderRegistryLock ==
    /\ [](\A t \in Threads : pc[t] \in Issuing => (cb_lock = t /\ q_lock # t))
    /\ [](\A t, u \in Threads : (pc[t] \in Issuing /\ pc[u] \in Issuing) => t = u)
    /\ [][client_id' # client_id =>
            \E t \in Threads :
                /\ pc[t] = "ac_inc" /\ pc'[t] = "ac_q"
                /\ cb_lock = t
                /\ frame[t].return_id = client_id
                /\ client_id' = client_id + 1]_vars

\* A thread is about to increment the counter while a destory_queue on
\* another thread holds the table lock.
C16_Witness ==
    \E t, u \in Threads :
        /\ pc[t] = "ac_inc"
        /\ q_lock = u
        /\ u # t
        /\ pc[u] = "dq_erase"

\* The positions inside a writer critical section of the live-queue table
\* and of the callback registry.
InTable == {"aq_ins", "aq_fill", "dq_erase", "ac_scan", "rc_scan"}
InRegistry ==
    {"aq_q", "aq_ins", "aq_fill", "aq_ret",
     "ac_read", "ac_store", "ac_inc", "ac_q", "ac_scan", "ac_ret",
     "rc_erase", "rc_q", "rc_scan", "rc_ret"}

\* C17 (writer exclusivity): a thread inside a critical section of the
\* table holds the table's writer lock, one inside a critical section of
\* the registry holds the registry's; no two threads are inside critical
\* sections of the same structure, so while destory_queue erases no other
\* thread inserts, backfills or scans; and every step that changes the
\* table or the registry is taken by the thread that holds its lock.
C17_WriterExclusivity ==
    /\ [](/\ \A t \in Threads : pc[t] \in InTable => q_lock = t
          /\ \A t \in Threads : pc[t] \in InRegistry => cb_lock = t
          /\ \A t, u \in Threads :
                (pc[t] \in InTable /\ pc[u] \in InTable) => t = u
          /\ \A t, u \in Threads :
                (pc[t] \in InRegistry /\ pc[u] \in InRegistry) => t = u)
    /\ [][/\ queues' # queues =>
                \E t \in Threads :
                    q_lock = t /\ pc[t] \in InTable /\ pc'[t] # pc[t]
          /\ callback_cache' # callback_cache =>
                \E t \in Threads :
                    cb_lock = t /\ pc[t] \in InRegistry /\ pc'[t] # pc[t]]_vars

\* destory_queue is about to erase a live queue that holds a callback,
\* while add_callback or remove_callback on the other thread, holding the
\* registry lock, waits for the table lock to scan the queues.
C17_Witness ==
    \E t, u \in Threads :
        /\ pc[t] = "dq_erase"
        /\ frame[t].h \in DOMAIN queues
        /\ queues[frame[t].h].callbacks # EmptyMap
        /\ pc[u] \in {"ac_q", "rc_q"}
        /\ cb_lock = u

\* C18 (no double insertion): the step of add_queue that inserts under a
\* handle whose entry is live trips an assertion, which ends the process,
\* and leaves the table with the existing Proxy Queue in it; it does not
\* replace the entry.
C18_NoDoubleInsertion ==
    [][\A t \in Threads :
          (pc[t] = "aq_ins" /\ pc'[t] # pc[t] /\ frame[t].h \in DOMAIN queues) =>
              /\ fatal'
              /\ queues' = queues]_vars

\* C19 (init is idempotent): an init invoked when init has already run,
\* with the same table and contexts, leaves the Agent Capability Cache,
\* the runtime's table and the saved copy as the first left them, and the
\* saved copy's create and destroy slots are the native entry points.
C19_InitIdempotent ==
    [][inited =>
          /\ supported_agents' = supported_agents
          /\ core_table' = core_table
          /\ saved_core_table' = saved_core_table
          /\ saved_core_table' = NativeTable]_vars

\* C20 (registration order): the identifiers whose pairs fire at an
\* instrumentation point fire in increasing order, which is the order of
\* their registration with the controller, also on a queue that received
\* them through the backfill of add_queue.
C20_RegistrationOrder ==
    \A i, j \in 1..Len(fired) : i < j => fired[i] < fired[j]


\* C21 (record header discriminant): the hash computed from a 32-bit
\* category and a 32-bit kind is the number category + kind * 2^32, which
\* fits in 64 bits; no other pair of inputs has the same hash; and
\* hash mod 2^32 is the category, hash div 2^32 the kind.
C21_HeaderHash ==
    header.computed =>
        LET category == Numeral(header.category)
            kind     == Numeral(header.kind)
            hash     == Numeral(header.hash)
            sum      == Plus(category, TimesPow2(kind, 32))
        IN  /\ SameNumber(hash, sum)
            /\ FitsIn(sum, 64)
            /\ \A c \in Word32Samples, k \in Word32Samples :
                   rocprofiler_record_header_compute_hash(c, k) = header.hash
                       => c = header.category /\ k = header.kind
            /\ SameNumber(ModPow2(hash, 32), category)
            /\ SameNumber(DivPow2(hash, 32), kind)

\* The hash of the largest category and the largest kind has been computed.
C21_Witness ==
    /\ header.computed
    /\ header.category = U32(0..31)
    /\ header.kind = U32(0..31)

\* The table maps handle h to a Queue of the agent with handle a whose
\* snapshot is the registry's entries for that agent.
Registered(h, a) ==
    /\ h \in DOMAIN queues
    /\ queues[h].agent = a
    /\ queues[h].callbacks = ExpectedSnapshot(a)

\* Thread u takes the step of destory_queue that erases handle h.
DestroyStep(u, h) ==
    /\ pc[u] = "dq_erase" /\ pc'[u] = "idle"
    /\ frame[u].h = h

InsertStep(t) == pc[t] = "aq_ins" /\ pc'[t] = "aq_fill"

\* Thread t takes a step of add_callback or of remove_callback.
CallbackStep(t) ==
    /\ pc[t] \in {"ac_cb", "ac_read", "ac_store", "ac_inc", "ac_q", "ac_scan", "ac_ret",
                  "rc_cb", "rc_erase", "rc_q", "rc_scan", "rc_ret"}
    /\ pc'[t] # pc[t]

\* C23 (table membership frame): the set of live handles changes only in
\* add_queue's insertion, which adds exactly its handle, and in
\* destory_queue's erase, which removes exactly its handle; no step of
\* add_callback or remove_callback changes the set of live handles or the
\* agent of a live queue; and destory_queue of h leaves every other entry,
\* with its snapshot, as it was.
C23_TableMembershipFrame ==
    [][/\ DOMAIN queues' # DOMAIN queues =>
             \E t \in Threads :
                 \/ /\ InsertStep(t)
                    /\ DOMAIN queues' = DOMAIN queues \cup {frame[t].h}
                 \/ /\ DestroyStep(t, frame[t].h)
                    /\ DOMAIN queues' = DOMAIN queues \ {frame[t].h}
       /\ \A t \in Threads :
             CallbackStep(t) =>
                 /\ DOMAIN queues' = DOMAIN queues
                 /\ \A h \in DOMAIN queues : queues'[h].agent = queues[h].agent
       /\ \A t \in Threads :
             DestroyStep(t, frame[t].h) =>
                 \A g \in DOMAIN queues \ {frame[t].h} :
                     g \in DOMAIN queues' /\ queues'[g] = queues[g]]_vars

\* destory_queue holds the table lock and is about to erase a live handle
\* while another live queue holds a callback and the other thread is inside
\* add_callback or remove_callback.
C23_Witness ==
    \E t \in Threads, u \in Threads :
        /\ pc[t] = "dq_erase"
        /\ frame[t].h \in DOMAIN queues
        /\ \E g \in DOMAIN queues \ {frame[t].h} : queues[g].callbacks # EmptyMap
        /\ pc[u] \in {"ac_q", "rc_q"}

\* C24 (agent cache is frozen after init): once init has run, no step of
\* the create hook, add_queue, destory_queue, add_callback or
\* remove_callback adds, removes or changes an entry of the Agent
\* Capability Cache, so the cache the create hook iterates without a lock
\* is the one init left.
C24_AgentCacheFrozen ==
    [][inited => supported_agents' = supported_agents]_vars

\* After init, with a non-empty cache: a queue is live, a callback is in
\* the registry, another was removed, and a create hook has just found its
\* agent in the cache while the other thread is inside destory_queue.
C24_Witness ==
    /\ inited
    /\ supported_agents # EmptyMap
    /\ queues # EmptyMap
    /\ callback_cache # EmptyMap
    /\ \E r \in removed : r.issued
    /\ \E t \in Threads, u \in Threads :
          /\ pc[t] = "aq_cb" /\ Recognized(frame[t].agent)
          /\ pc[u] = "dq_erase"

\* Thread t is inside a remove_callback whose identifier was not in the
\* registry when line 127 ran: it had not been issued yet, or a
\* remove_callback of it had returned after it was issued.
RemovesAbsent(t) ==
    /\ pc[t] \in {"rc_q", "rc_scan", "rc_ret"}
    /\ ~frame[t].issued \/ RemovedAfterIssue(frame[t].id)

\* C25 (idempotent unregistration): an identifier that is not in the
\* registry when remove_callback erases is one not issued yet or one
\* already removed; no step of such a call changes the registry or a
\* queue's snapshot or ends in a fatal error, and the call returns; and
\* erasing and scanning twice for an identifier gives what doing so once
\* gives.
C25_IdempotentUnregistration ==
    /\ [](\A t \in Threads :
            pc[t] = "rc_erase" /\ frame[t].id \notin DOMAIN callback_cache
                => frame[t].id >= client_id \/ RemovedAfterIssue(frame[t].id))
    /\ [](\A id \in ClientIDs :
            /\ EraseCallback(EraseCallback(callback_cache, id), id)
                   = EraseCallback(callback_cache, id)
            /\ ScanRemove(ScanRemove(queues, id), id) = ScanRemove(queues, id))
    /\ [][\A t \in Threads :
            \/ /\ pc[t] = "rc_erase" /\ pc'[t] # pc[t]
               /\ frame[t].id \notin DOMAIN callback_cache
            \/ RemovesAbsent(t) /\ pc'[t] # pc[t]
            => /\ callback_cache' = callback_cache
               /\ \A h \in DOMAIN queues :
                     h \in DOMAIN queues' => queues'[h] = queues[h]
               /\ fatal' = fatal
               /\ pc[t] = "rc_ret" => pc'[t] = "idle"]_vars

\* A second remove_callback of an identifier that was issued and removed
\* is scanning the table while a live queue holds another callback.
C25_Witness ==
    \E t \in Threads :
        /\ pc[t] = "rc_scan"
        /\ RemovedAfterIssue(frame[t].id)
        /\ callback_cache # EmptyMap
        /\ \E h \in DOMAIN queues : queues[h].callbacks # EmptyMap

\* Every identifier other than id keeps, over the step, its registry entry
\* and its registration with every queue that stays live.
OthersKept(id) ==
    \A other \in DOMAIN callback_cache \cup
                 UNION {DOMAIN queues[h].callbacks : h \in DOMAIN queues} :
        other # id =>
            /\ other \in DOMAIN callback_cache =>
                  /\ other \in DOMAIN callback_cache'
                  /\ callback_cache'[other] = callback_cache[other]
            /\ \A h \in DOMAIN queues \cap DOMAIN queues' :
                  other \in DOMAIN queues[h].callbacks =>
                      /\ other \in DOMAIN queues'[h].callbacks
                      /\ queues'[h].callbacks[other] = queues[h].callbacks[other]

\* C26 (removal frame): a step of remove_callback(id) leaves every other
\* identifier in the registry, with its triple, and in the snapshot of
\* every queue that held it, with its pair; and so does a step of
\* add_callback for every identifier other than the one it issues.
C26_RemovalFrame ==
    [][\A t \in Threads :
          /\ pc[t] \in {"rc_cb", "rc_erase", "rc_q", "rc_scan", "rc_ret"}
                /\ pc'[t] # pc[t]
                => OthersKept(frame[t].id)
          /\ pc[t] \in {"ac_cb", "ac_read", "ac_store", "ac_inc", "ac_q", "ac_scan",
                        "ac_ret"}
                /\ pc'[t] # pc[t]
                => OthersKept(IF pc[t] \in HasId THEN frame[t].return_id
                              ELSE client_id)]_vars

\* remove_callback is scanning the table for an identifier that a live
\* queue holds together with another identifier.
C26_Witness ==
    \E t \in Threads, h \in DOMAIN queues :
        /\ pc[t] = "rc_scan"
        /\ frame[t].id \in DOMAIN queues[h].callbacks
        /\ \E other \in DOMAIN queues[h].callbacks :
              other # frame[t].id /\ other \in DOMAIN callback_cache

\* The instructions the KernelObject holds.
Instructions == kernel_object.instructions

\* An instruction of size 0 has been decoded.
ZeroSizeDecoded ==
    \E i \in 1..Len(Instructions) : Instructions[i].size = UInt64(0, 0)

\* The address one past the last byte of an instruction, as a number.
EndOf(inst) == Plus(inst.vaddr, inst.size)

\* The instructions are contiguous from begin_address and each starts
\* strictly below end_address.
DecodedInRange ==
    /\ Instructions # << >> => Instructions[1].vaddr = kernel_object.begin_address
    /\ \A i \in 1..(Len(Instructions) - 1) :
          SameNumber(Instructions[i + 1].vaddr, EndOf(Instructions[i]))
    /\ \A i \in 1..Len(Instructions) :
          Less64(Instructions[i].vaddr, kernel_object.end_address)
    /\ ~Less64(kernel_object.begin_address, kernel_object.end_address)
          => Instructions = << >>

====
